---- MODULE Spec2Model ----
(***************************************************************************)
(* Keeper note store: the engine createKeeperDB (db-impl.ts), the schema   *)
(* with its cascades and FTS5 triggers (schema.ts) and the link detector   *)
(* (url-detect.ts), as one state machine over the relational tables.       *)
(* Text values are sequences of one-character strings.                     *)
(***************************************************************************)
EXTENDS Integers, Sequences, FiniteSets, TLC

\* ---------------------------------------------------------------- bounds
MaxNotes == 2
MaxTagId == 3
MaxMedia == 2
MaxTime  == 1
MaxQueryLen == 4

\* ------------------------------------------------------------ text values
EmptyText == << >>
T_Dev     == <<"D","e","v">>
B_old     == <<"o","l","d"," ","d","e","v">>
B_https   == <<"s","e","e"," ","h","t","t","p","s",":","/","/","a">>
B_bare    == <<"h","t","t","p",":","/","/"," ","x">>

\* an omitted optional argument (JavaScript undefined)
Undefined == <<"undefined">>
\* the absence value returned by getNote (JavaScript null)
Null == [isNull |-> TRUE]
\* a NULL column value (tags.icon DEFAULT NULL)
SqlNull == "NULL"

Titles    == {EmptyText, T_Dev}
Bodies    == {EmptyText, B_old, B_https, B_bare}
TitleArgs == Titles \cup {Undefined}
BodyArgs  == Bodies \cup {Undefined}
TagNames  == {"a", "b"}
Icons     == {SqlNull, "star"}
MimeTypes == {"image/png"}
\* note ids a caller may pass: 0 is an id generateId never returns
IdArgs    == 0..MaxNotes
TagIdArgs == 0..MaxTagId

VARIABLES notes, tags, tag_seq, note_tags, media, notes_fts,
          idCounter, mediaCounter, clock, last, inflight, mock, chat

vars == <<notes, tags, tag_seq, note_tags, media, notes_fts,
          idCounter, mediaCounter, clock, last, inflight, mock, chat>>

\* the callers that can have an engine call in flight at the same time
Callers == {1, 2}

\* ------------------------------------------------------------- utilities
Restrict(f, S) == [x \in S |-> f[x]]

Max(S) == CHOOSE x \in S : \A y \in S : y <= x

Min(S) == CHOOSE x \in S : \A y \in S : x <= y

RECURSIVE SortedSeq(_)
SortedSeq(S) == IF S = {} THEN << >> ELSE <<Min(S)>> \o SortedSeq(S \ {Min(S)})

\* --------------------------------------------------------- link detector
IsWhitespace(c) == c \in {" ", "\t", "\n"}

StartsAt(text, i, p) ==
    /\ i + Len(p) - 1 <= Len(text)
    /\ \A k \in 1..Len(p) : text[i + k - 1] = p[k]

\* /https?:\/\/\S+/ matches at position i
UrlReMatchesAt(text, i) ==
    \/ /\ StartsAt(text, i, <<"h","t","t","p",":","/","/">>)
       /\ i + 7 <= Len(text)
       /\ ~IsWhitespace(text[i + 7])
    \/ /\ StartsAt(text, i, <<"h","t","t","p","s",":","/","/">>)
       /\ i + 8 <= Len(text)
       /\ ~IsWhitespace(text[i + 8])

containsUrl(text) ==
    IF text = EmptyText THEN FALSE
    ELSE \E i \in 1..Len(text) : UrlReMatchesAt(text, i)

\* ------------------------------------------------- schema: rows and rules
\* rowid of a new notes row: one more than the largest rowid in the table
NextRowid == IF DOMAIN notes = {} THEN 1
             ELSE Max({notes[n].rowid : n \in DOMAIN notes}) + 1

FtsEntry(row) == [rowid |-> row.rowid, title |-> row.title, body |-> row.body]

\* trigger notes_fts_insert
notes_fts_insert(fts, new) == fts \cup {FtsEntry(new)}

\* trigger notes_fts_delete
notes_fts_delete(fts, old) == fts \ {FtsEntry(old)}

notes_fts_update_keepOld(fts, old, new) == fts \cup {FtsEntry(new)}

\* trigger notes_fts_update: 'delete' of the OLD values, then insert of NEW
notes_fts_update(fts, old, new) == (fts \ {FtsEntry(old)}) \cup {FtsEntry(new)}

\* a table with a key constraint is a map from the rows present to the
\* number of copies of each
RowCount(t, r) == IF r \in DOMAIN t THEN t[r] ELSE 0

AppendRow(t, r) == IF r \in DOMAIN t THEN [t EXCEPT ![r] = @ + 1]
                   ELSE t @@ (r :> 1)

CascadeNoteDelete_noCascade(nt, id) == nt

\* note_tags.note_id REFERENCES notes(id) ON DELETE CASCADE
CascadeNoteDelete(nt, id) == Restrict(nt, {r \in DOMAIN nt : r[1] # id})

CascadeTagDelete_noCascade(nt, tagId) == nt

\* note_tags.tag_id REFERENCES tags(id) ON DELETE CASCADE
CascadeTagDelete(nt, tagId) == Restrict(nt, {r \in DOMAIN nt : r[2] # tagId})

CascadeMediaDelete_noCascade(m, id) == m

\* media.note_id REFERENCES notes(id) ON DELETE CASCADE
CascadeMediaDelete(m, id) == Restrict(m, {k \in DOMAIN m : m[k].note_id # id})

TagIdByName(name) == {t \in DOMAIN tags : tags[t].name = name}

\* ------------------------------------------------------- engine: helpers
\* rowToNote: the columns the engine copies into a Note
rowToNote(id, row) ==
    [id |-> id, title |-> row.title, body |-> row.body,
     has_links |-> (row.has_links = 1),
     created_at |-> row.created_at, updated_at |-> row.updated_at]

\* getTagsForNote: tags joined to note_tags through the primary-key index
getTagsForNoteIn(tg, nt, noteId) ==
    LET ids == {t \in DOMAIN tg : <<noteId, t>> \in DOMAIN nt}
        s   == SortedSeq(ids)
    IN  [i \in 1..Len(s) |-> [id |-> s[i], name |-> tg[s[i]].name]]

withTagsIn(tg, nt, note) ==
    [id |-> note.id, title |-> note.title, body |-> note.body,
     has_links |-> note.has_links,
     created_at |-> note.created_at, updated_at |-> note.updated_at,
     tags |-> getTagsForNoteIn(tg, nt, note.id)]

getNoteIn(ns, tg, nt, id) ==
    IF id \in DOMAIN ns THEN withTagsIn(tg, nt, rowToNote(id, ns[id])) ELSE Null

getNote(id) == getNoteIn(notes, tags, note_tags, id)

\* the rows the listing queries select (their WHERE clauses)
getAllNotesRows == DOMAIN notes

getUntaggedNotesRows ==
    {n \in DOMAIN notes : ~\E r \in DOMAIN note_tags : r[1] = n}

getLinkedNotesRows == {n \in DOMAIN notes : notes[n].has_links = 1}

getNotesForTagRows(tagId) ==
    {n \in DOMAIN notes : <<n, tagId>> \in DOMAIN note_tags}

getArchivedNotesRows == {n \in DOMAIN notes : notes[n].archived = 1}

getMediaForNoteRows(noteId) == {k \in DOMAIN media : media[k].note_id = noteId}

\* every order in which the rows of S can come out
RECURSIVE Perms(_)
Perms(S) ==
    IF S = {} THEN {<< >>}
    ELSE UNION {{<<x>> \o p : p \in Perms(S \ {x})} : x \in S}

\* ORDER BY updated_at DESC: the orders a result can have; rows with equal
\* updated_at come out in an order the statement does not fix
OrderByUpdatedAtDesc(rows) ==
    {s \in Perms(rows) :
        \A i, j \in 1..Len(s) :
            i < j => notes[s[i]].updated_at >= notes[s[j]].updated_at}

getAllNotes == OrderByUpdatedAtDesc(getAllNotesRows)

getUntaggedNotes == OrderByUpdatedAtDesc(getUntaggedNotesRows)

getLinkedNotes == OrderByUpdatedAtDesc(getLinkedNotesRows)

getNotesForTag(tagId) == OrderByUpdatedAtDesc(getNotesForTagRows(tagId))

\* getArchivedNotes: only archived notes, newest-updated first
getArchivedNotes == OrderByUpdatedAtDesc(getArchivedNotesRows)

\* ORDER BY name over the tag names in use
NameRank(name) == IF name = "a" THEN 1 ELSE 2

\* getAllTags: SELECT id, name FROM tags ORDER BY name
getAllTagsIn(tg) ==
    LET before(t) == {u \in DOMAIN tg : NameRank(tg[u].name) < NameRank(tg[t].name)}
    IN  [i \in 1..Cardinality(DOMAIN tg) |->
            LET t == CHOOSE u \in DOMAIN tg : Cardinality(before(u)) = i - 1
            IN  [id |-> t, name |-> tg[t].name]]

getAllTags == getAllTagsIn(tags)

\* the relational store: every table, and the AUTOINCREMENT sequence of tags
Store == <<notes, tags, tag_seq, note_tags, media, notes_fts>>

\* the outcome of the last engine call: its arguments, the error it threw or
\* "none", the value it returned, and whether it changed the store
Result(op, args, err, ret) ==
    [op |-> op, args |-> args, err |-> err, ret |-> ret, changed |-> Store' # Store]

\* ------------------------------------------------- mock DB (in memory)
\* createMockDB: the id counters, the notes map (the tag list of each note)
\* and the tags map.  A tag is one object, shared by the tags map and by the
\* tag lists of the notes, so a tag list holds tag ids and the tags map holds
\* the fields; the map keeps the tags in the order of their creation, which
\* is the order of their ids.
MockInit == [noteId |-> 1, tagId |-> 1, notes |-> << >>, tags |-> << >>]

\* Array.from(tags.values()).find(t => t.name === name): the ids it can be
MockFindTag(m, name) ==
    LET ids == {t \in DOMAIN m.tags : m.tags[t].name = name}
    IN  IF ids = {} THEN {} ELSE {Min(ids)}

MockCreateNote(m) ==
    [m EXCEPT !.noteId = @ + 1, !.notes = @ @@ (m.noteId :> << >>)]

MockAddTag(m, noteId, tagName) ==
    IF noteId \notin DOMAIN m.notes THEN m
    ELSE LET found == MockFindTag(m, tagName)
             tag   == IF found = {} THEN m.tagId ELSE CHOOSE t \in found : TRUE
             tg    == IF found = {}
                      THEN m.tags @@ (tag :> [name |-> tagName, icon |-> SqlNull])
                      ELSE m.tags
             has   == \E i \in DOMAIN m.notes[noteId] :
                         tg[m.notes[noteId][i]].name = tagName
         IN  [m EXCEPT !.tagId = IF found = {} THEN @ + 1 ELSE @,
                       !.tags = tg,
                       !.notes[noteId] = IF has THEN @ ELSE Append(@, tag)]

\* the tags that some note's tag list holds
MockAttached(m) ==
    {t \in DOMAIN m.tags :
        \E n \in DOMAIN m.notes : \E i \in DOMAIN m.notes[n] : m.notes[n][i] = t}

\* renameTag: first every tag named oldName in a note's tag list is renamed,
\* then the first tag of the map that is still named oldName
MockRenameTag(m, oldName, newName) ==
    LET inNotes == [t \in DOMAIN m.tags |->
                      IF t \in MockAttached(m) /\ m.tags[t].name = oldName
                      THEN [m.tags[t] EXCEPT !.name = newName]
                      ELSE m.tags[t]]
        m1      == [m EXCEPT !.tags = inNotes]
        found   == MockFindTag(m1, oldName)
    IN  [m1 EXCEPT !.tags = [t \in DOMAIN inNotes |->
                               IF t \in found
                               THEN [inNotes[t] EXCEPT !.name = newName]
                               ELSE inNotes[t]]]

\* updateTagIcon of the mock: the icon of the tag with this id, if any
MockUpdateTagIcon(m, tagId, icon) ==
    [m EXCEPT !.tags = [t \in DOMAIN m.tags |->
                          IF t = tagId THEN [m.tags[t] EXCEPT !.icon = icon]
                          ELSE m.tags[t]]]

\* ------------------------------------------------------ chat tool loop
\* useChatLoop: where the hook is (pc), its loading and pendingConfirmation
\* state, the locals of the running send() (iterations, the tool calls of the
\* response that are still to run), the number of stream requests the last
\* send() has issued, how it ended, whether it appended the
\* maximum-number-of-actions message, and the id a db.deleteNote call in
\* progress was given
MAX_TOOL_ITERATIONS == 10

ChatInit ==
    [pc |-> "idle", loading |-> FALSE, pending |-> Null, iterations |-> 0,
     requests |-> 0, queue |-> << >>, exit |-> "none", limitMsg |-> FALSE,
     deleting |-> 0]

\* a parsed tool_call block: its name and its args.id (hasId: it is a string)
ToolCall(name, hasId, id) == [name |-> name, hasId |-> hasId, id |-> id]

\* TOOL_NAMES accepts delete_note and confirm_delete_note alike
ToolCalls ==
    {ToolCall("list_notes", FALSE, 0), ToolCall("delete_note", FALSE, 0)}
    \cup {ToolCall(n, TRUE, i) :
            n \in {"delete_note", "confirm_delete_note"}, i \in 1..MaxNotes}

\* parseMCPResponse(accumulated).toolCalls for the responses of the model
Responses ==
    {<< >>} \cup {<<c>> : c \in ToolCalls}
    \cup {<<c, d>> : c \in ToolCalls, d \in {ToolCall("list_notes", FALSE, 0)}}

LoopContinues_offByOne(iterations) == iterations <= MAX_TOOL_ITERATIONS

\* while (iterations < MAX_TOOL_ITERATIONS)
LoopContinues(iterations) == iterations < MAX_TOOL_ITERATIONS

\* send() returns: the limit message is appended when the loop was left with
\* iterations >= MAX_TOOL_ITERATIONS; the finally block clears loading
Finish(c, exit) ==
    [c EXCEPT !.pc = "idle", !.loading = FALSE, !.queue = << >>,
              !.exit = exit,
              !.limitMsg = (exit \in {"answer", "limit"}
                            /\ c.iterations >= MAX_TOOL_ITERATIONS)]

\* the loop test and, when it holds, iterations++ and the next stream request
NextIteration(c) ==
    IF LoopContinues(c.iterations)
    THEN [c EXCEPT !.iterations = @ + 1, !.requests = @ + 1,
                   !.pc = "stream", !.queue = << >>]
    ELSE Finish(c, "limit")

\* the for loop over toolCalls moves on to the next call
NextToolCall(c) ==
    IF Tail(c.queue) = << >> THEN NextIteration(c)
    ELSE [c EXCEPT !.pc = "tools", !.queue = Tail(@)]

\* ---------------------------------------------------------------- state
Init ==
    /\ notes = << >>
    /\ tags = << >>
    /\ tag_seq = 0
    /\ note_tags = << >>
    /\ media = << >>
    /\ notes_fts = {}
    /\ idCounter = 0
    /\ mediaCounter = 0
    /\ clock = 0
    /\ last = [op |-> "init", args |-> << >>, err |-> "none", ret |-> Null,
               changed |-> FALSE]
    /\ inflight = << >>
    /\ mock = MockInit
    /\ chat = ChatInit

\* now(): the caller-supplied clock, which never goes back
NowValues == {t \in {clock, clock + 1} : t <= MaxTime}

\* ------------------------------------------------------- engine: notes
createNote(title, body, timestamp) ==
    /\ idCounter < MaxNotes
    /\ LET id  == idCounter + 1
           ttl == IF title = Undefined THEN EmptyText ELSE title
           hasLinks == IF containsUrl(body) THEN 1 ELSE 0
           row == [rowid |-> NextRowid, title |-> ttl, body |-> body,
                   has_links |-> hasLinks, pinned |-> 0, archived |-> 0,
                   created_at |-> timestamp, updated_at |-> timestamp]
           ret == withTagsIn(tags, note_tags,
                    [id |-> id, title |-> ttl, body |-> body,
                     has_links |-> (hasLinks = 1),
                     created_at |-> timestamp, updated_at |-> timestamp])
       IN  /\ idCounter' = id
           /\ clock' = timestamp
           /\ notes' = notes @@ (id :> row)
           /\ notes_fts' = notes_fts_insert(notes_fts, row)
           /\ UNCHANGED <<tags, tag_seq, note_tags, media, mediaCounter>>
           /\ UNCHANGED <<inflight, mock, chat>>
           /\ last' = Result("createNote", [title |-> title, body |-> body],
                             "none", ret)

\* the values updateNote writes: omitted fields come from the existing row
updateNoteFields_staleLinks(existing, title, body) ==
    [title |-> IF title = Undefined THEN existing.title ELSE title,
     body  |-> IF body = Undefined THEN existing.body ELSE body,
     hasLinks |-> IF containsUrl(existing.body) THEN 1 ELSE 0]

updateNoteFields_titleDefault(existing, title, body) ==
    LET b == IF body = Undefined THEN existing.body ELSE body
    IN  [title |-> IF title = Undefined THEN EmptyText ELSE title,
         body  |-> b,
         hasLinks |-> IF containsUrl(b) THEN 1 ELSE 0]

updateNoteFields(existing, title, body) ==
    LET b == IF body = Undefined THEN existing.body ELSE body
    IN  [title |-> IF title = Undefined THEN existing.title ELSE title,
         body  |-> b,
         hasLinks |-> IF containsUrl(b) THEN 1 ELSE 0]

NoteNotFound_silent == "none"

\* throw new Error(`Note not found: ${id}`)
NoteNotFound == "NotFound"

UpdatedRow_skipWhenSame(old, f, timestamp) ==
    IF f.title = old.title /\ f.body = old.body THEN old
    ELSE [old EXCEPT !.title = f.title, !.body = f.body,
                     !.has_links = f.hasLinks, !.updated_at = timestamp]

\* UPDATE notes SET title = ?, body = ?, has_links = ?, updated_at = ?
UpdatedRow(old, f, timestamp) ==
    [old EXCEPT !.title = f.title, !.body = f.body,
                !.has_links = f.hasLinks, !.updated_at = timestamp]

updateNote(id, title, body, timestamp) ==
    LET existing == getNote(id)
        args == [id |-> id, title |-> title, body |-> body]
    IN  IF existing = Null
        THEN /\ UNCHANGED <<notes, tags, tag_seq, note_tags, media, notes_fts,
                            idCounter, mediaCounter, clock>>
             /\ UNCHANGED <<inflight, mock, chat>>
             /\ last' = Result("updateNote", args, NoteNotFound, Null)
        ELSE LET f   == updateNoteFields(existing, title, body)
                 old == notes[id]
                 new == UpdatedRow(old, f, timestamp)
                 ret == [existing EXCEPT !.title = f.title, !.body = f.body,
                                         !.has_links = (f.hasLinks = 1),
                                         !.updated_at = timestamp]
             IN  /\ clock' = timestamp
                 /\ notes' = [notes EXCEPT ![id] = new]
                 /\ notes_fts' = notes_fts_update(notes_fts, old, new)
                 /\ UNCHANGED <<tags, tag_seq, note_tags, media,
                                idCounter, mediaCounter>>
                 /\ UNCHANGED <<inflight, mock, chat>>
                 /\ last' = Result("updateNote", args, "none", ret)

\* DELETE FROM notes WHERE id = ?, with its trigger and cascades
DeleteNoteRow(db, id) ==
    IF id \in DOMAIN db.notes
    THEN [notes     |-> Restrict(db.notes, DOMAIN db.notes \ {id}),
          notes_fts |-> notes_fts_delete(db.notes_fts, db.notes[id]),
          note_tags |-> CascadeNoteDelete(db.note_tags, id),
          media     |-> CascadeMediaDelete(db.media, id)]
    ELSE db

CurrentDb == [notes |-> notes, notes_fts |-> notes_fts,
              note_tags |-> note_tags, media |-> media]

deleteNote(id) ==
    LET db == DeleteNoteRow(CurrentDb, id)
    IN  /\ notes' = db.notes
        /\ notes_fts' = db.notes_fts
        /\ note_tags' = db.note_tags
        /\ media' = db.media
        /\ UNCHANGED <<tags, tag_seq, idCounter, mediaCounter, clock>>
        /\ UNCHANGED <<inflight, mock, chat>>
        /\ last' = Result("deleteNote", [id |-> id], "none", Null)

RECURSIVE DeleteEach(_, _)
DeleteEach(db, ids) ==
    IF ids = << >> THEN db
    ELSE DeleteEach(DeleteNoteRow(db, Head(ids)), Tail(ids))

deleteNotes(ids) ==
    LET db == DeleteEach(CurrentDb, ids)
    IN  /\ notes' = db.notes
        /\ notes_fts' = db.notes_fts
        /\ note_tags' = db.note_tags
        /\ media' = db.media
        /\ UNCHANGED <<tags, tag_seq, idCounter, mediaCounter, clock>>
        /\ UNCHANGED <<inflight, mock, chat>>
        /\ last' = Result("deleteNotes", [ids |-> ids], "none", Null)

ToggledRow_staleTime(old, flag, timestamp) == [old EXCEPT ![flag] = 1 - @]

\* the row a toggle writes: one flag flipped, updated_at refreshed
ToggledRow(old, flag, timestamp) ==
    [old EXCEPT ![flag] = 1 - @, !.updated_at = timestamp]

\* togglePinNote / toggleArchiveNote: flip one flag, refresh updated_at
toggleFlag(op, flag, id, timestamp) ==
    IF id \notin DOMAIN notes
    THEN /\ UNCHANGED <<notes, tags, tag_seq, note_tags, media, notes_fts,
                        idCounter, mediaCounter, clock>>
         /\ UNCHANGED <<inflight, mock, chat>>
         /\ last' = Result(op, [id |-> id], NoteNotFound, Null)
    ELSE LET old == notes[id]
             new == ToggledRow(old, flag, timestamp)
         IN  /\ clock' = timestamp
             /\ notes' = [notes EXCEPT ![id] = new]
             /\ notes_fts' = notes_fts_update(notes_fts, old, new)
             /\ UNCHANGED <<tags, tag_seq, note_tags, media,
                            idCounter, mediaCounter>>
             /\ UNCHANGED <<inflight, mock, chat>>
             /\ last' = Result(op, [id |-> id], "none", Null)

togglePinNote(id, timestamp) == toggleFlag("togglePinNote", "pinned", id, timestamp)

toggleArchiveNote(id, timestamp) ==
    toggleFlag("toggleArchiveNote", "archived", id, timestamp)

\* -------------------------------------------------------- engine: tags
\* INSERT OR IGNORE INTO tags (name) VALUES (?): name is UNIQUE, id is
\* AUTOINCREMENT
InsertOrIgnoreTag(tg, seq, nt, name) ==
    IF \E t \in DOMAIN tg : tg[t].name = name
    THEN [tags |-> tg, tag_seq |-> seq, note_tags |-> nt]
    ELSE [tags |-> tg @@ ((seq + 1) :> [name |-> name, icon |-> SqlNull]),
          tag_seq |-> seq + 1, note_tags |-> nt]

InsertOrIgnoreNoteTag_plain(nt, noteId, tagId) == AppendRow(nt, <<noteId, tagId>>)

\* INSERT OR IGNORE INTO note_tags (note_id, tag_id) VALUES (?, ?)
InsertOrIgnoreNoteTag(nt, noteId, tagId) ==
    IF <<noteId, tagId>> \in DOMAIN nt THEN nt
    ELSE AppendRow(nt, <<noteId, tagId>>)

addTag(noteId, tagName) ==
    LET args == [noteId |-> noteId, tagName |-> tagName]
    IN  IF getNote(noteId) = Null
        THEN /\ UNCHANGED <<notes, tags, tag_seq, note_tags, media, notes_fts,
                            idCounter, mediaCounter, clock>>
             /\ UNCHANGED <<inflight, mock, chat>>
             /\ last' = Result("addTag", args, NoteNotFound, Null)
        ELSE /\ (TagIdByName(tagName) = {} => tag_seq < MaxTagId)
             /\ LET ins   == InsertOrIgnoreTag(tags, tag_seq, note_tags, tagName)
                    tagId == CHOOSE t \in DOMAIN ins.tags : ins.tags[t].name = tagName
                    nt    == InsertOrIgnoreNoteTag(ins.note_tags, noteId, tagId)
                IN  /\ tags' = ins.tags
                    /\ tag_seq' = ins.tag_seq
                    /\ note_tags' = nt
                    /\ UNCHANGED <<notes, media, notes_fts, idCounter,
                                   mediaCounter, clock>>
                    /\ UNCHANGED <<inflight, mock, chat>>
                    /\ last' = Result("addTag", args, "none",
                                      getNoteIn(notes, ins.tags, nt, noteId))

DeleteNoteTag_allNotes(nt, noteId, ids) ==
    Restrict(nt, {r \in DOMAIN nt : r[2] \notin ids})

\* DELETE FROM note_tags WHERE note_id = ? AND tag_id = (SELECT id ...)
DeleteNoteTag(nt, noteId, ids) ==
    Restrict(nt, {r \in DOMAIN nt : ~(r[1] = noteId /\ r[2] \in ids)})

removeTag(noteId, tagName) ==
    LET args == [noteId |-> noteId, tagName |-> tagName]
        ids  == TagIdByName(tagName)
        nt   == DeleteNoteTag(note_tags, noteId, ids)
        note == getNoteIn(notes, tags, nt, noteId)
    IN  /\ note_tags' = nt
        /\ UNCHANGED <<notes, tags, tag_seq, media, notes_fts,
                       idCounter, mediaCounter, clock>>
        /\ UNCHANGED <<inflight, mock, chat>>
        /\ last' = IF note = Null
                   THEN Result("removeTag", args, NoteNotFound, Null)
                   ELSE Result("removeTag", args, "none", note)

\* UPDATE tags SET name = ? WHERE name = ?  (tags.name is UNIQUE: the
\* statement fails, and changes nothing, when another row has the new name)
RenameClash_anyRow(tg, olds, newName) ==
    olds # {} /\ \E t \in DOMAIN tg : tg[t].name = newName

\* the UNIQUE constraint on tags.name rejects the UPDATE when a row that the
\* statement does not rewrite already has the new name
RenameClash(tg, olds, newName) ==
    olds # {} /\ \E t \in DOMAIN tg \ olds : tg[t].name = newName

RenameRow_dropIcon(row, newName) == [name |-> newName, icon |-> SqlNull]

\* SET name = ?: the other columns of the row are not written
RenameRow(row, newName) == [row EXCEPT !.name = newName]

renameTag(oldName, newName) ==
    LET args == [oldName |-> oldName, newName |-> newName]
        olds == TagIdByName(oldName)
        clash == RenameClash(tags, olds, newName)
    IN  /\ tags' = IF clash THEN tags
                   ELSE [t \in DOMAIN tags |->
                           IF t \in olds THEN RenameRow(tags[t], newName)
                           ELSE tags[t]]
        /\ UNCHANGED <<notes, tag_seq, note_tags, media, notes_fts,
                       idCounter, mediaCounter, clock>>
        /\ UNCHANGED <<inflight, mock, chat>>
        /\ last' = Result("renameTag", args,
                          IF clash THEN "UniqueViolation" ELSE "none", Null)

\* deleteTag: DELETE FROM tags WHERE id = ?, with the note_tags cascade
deleteTag(tagId) ==
    /\ tags' = Restrict(tags, DOMAIN tags \ {tagId})
    /\ note_tags' = CascadeTagDelete(note_tags, tagId)
    /\ UNCHANGED <<notes, tag_seq, media, notes_fts, idCounter, mediaCounter, clock>>
    /\ UNCHANGED <<inflight, mock, chat>>
    /\ last' = Result("deleteTag", [tagId |-> tagId], "none", Null)

\* updateTagIcon: UPDATE tags SET icon = ? WHERE id = ?
updateTagIcon(tagId, icon) ==
    /\ tags' = [t \in DOMAIN tags |->
                  IF t = tagId THEN [tags[t] EXCEPT !.icon = icon] ELSE tags[t]]
    /\ UNCHANGED <<notes, tag_seq, note_tags, media, notes_fts,
                   idCounter, mediaCounter, clock>>
    /\ UNCHANGED <<inflight, mock, chat>>
    /\ last' = Result("updateTagIcon", [tagId |-> tagId, icon |-> icon], "none", Null)

\* ------------------------------------------------- host: worker variant
\* the worker's addTag: both inserts run before the note is looked up. OR
\* IGNORE does not cover the foreign key on note_tags.note_id, so for a note
\* that does not exist the second insert fails after the tag row was written
workerAddTag(noteId, tagName) ==
    LET args  == [noteId |-> noteId, tagName |-> tagName]
        ins   == InsertOrIgnoreTag(tags, tag_seq, note_tags, tagName)
        tagId == CHOOSE t \in DOMAIN ins.tags : ins.tags[t].name = tagName
        nt    == IF noteId \in DOMAIN notes
                 THEN InsertOrIgnoreNoteTag(ins.note_tags, noteId, tagId)
                 ELSE ins.note_tags
    IN  /\ (TagIdByName(tagName) = {} => tag_seq < MaxTagId)
        /\ tags' = ins.tags
        /\ tag_seq' = ins.tag_seq
        /\ note_tags' = nt
        /\ UNCHANGED <<notes, media, notes_fts, idCounter, mediaCounter, clock>>
        /\ UNCHANGED <<inflight, mock, chat>>
        /\ last' = IF noteId \in DOMAIN notes
                   THEN Result("workerAddTag", args, "none",
                               getNoteIn(notes, ins.tags, nt, noteId))
                   ELSE Result("workerAddTag", args, "ForeignKey", Null)

\* ------------------------------------------------------- host: media rows
\* the storage-capable host's storeMedia: INSERT INTO media (...), which the
\* foreign key on note_id rejects for a note that does not exist
workerStoreMedia(noteId, mimeType) ==
    LET args == [noteId |-> noteId, mimeType |-> mimeType]
    IN  /\ mediaCounter < MaxMedia
        /\ mediaCounter' = mediaCounter + 1
        /\ media' = IF noteId \in DOMAIN notes
                    THEN media @@ ((mediaCounter + 1) :>
                               [note_id |-> noteId, mime_type |-> mimeType,
                                created_at |-> clock])
                    ELSE media
        /\ UNCHANGED <<notes, tags, tag_seq, note_tags, notes_fts, idCounter, clock>>
        /\ UNCHANGED <<inflight, mock, chat>>
        /\ last' = Result("storeMedia", args,
                          IF noteId \in DOMAIN notes THEN "none" ELSE "ForeignKey",
                          Null)

\* a media row written straight into the table, with any created_at:
\* INSERT INTO media (id, note_id, mime_type, filename, created_at)
insertMediaRow(noteId, mimeType, createdAt) ==
    /\ mediaCounter < MaxMedia
    /\ noteId \in DOMAIN notes
    /\ mediaCounter' = mediaCounter + 1
    /\ media' = media @@ ((mediaCounter + 1) :>
                    [note_id |-> noteId, mime_type |-> mimeType,
                     created_at |-> createdAt])
    /\ UNCHANGED <<notes, tags, tag_seq, note_tags, notes_fts, idCounter, clock>>
    /\ UNCHANGED <<inflight, mock, chat>>
    /\ last' = Result("insertMediaRow", [noteId |-> noteId], "none", Null)

\* ------------------------------------------------------- engine: media
\* throw new Error('...: must be implemented by worker with OPFS access')
MustBeImplementedByWorker == "NotImplemented"

\* the three blob operations of the base engine only throw
baseMediaOp(op, args) ==
    /\ UNCHANGED <<notes, tags, tag_seq, note_tags, media, notes_fts,
                   idCounter, mediaCounter, clock>>
    /\ UNCHANGED <<inflight, mock, chat>>
    /\ last' = Result(op, args, MustBeImplementedByWorker, Null)

storeMedia(noteId, mimeType) ==
    baseMediaOp("storeMedia", [noteId |-> noteId, mimeType |-> mimeType])

getMedia(id) == baseMediaOp("getMedia", [id |-> id])

deleteMedia(id) == baseMediaOp("deleteMedia", [id |-> id])

mediaRecord(k) ==
    [id |-> k, note_id |-> media[k].note_id, mime_type |-> media[k].mime_type,
     created_at |-> media[k].created_at]

OrderByCreatedAt_insertion(rows) ==
    {p \in Perms(rows) : \A i, j \in DOMAIN p : i < j => p[i] < p[j]}

\* ORDER BY created_at: the orders a result can have; rows with equal
\* created_at come in any order
OrderByCreatedAt(rows) ==
    {p \in Perms(rows) :
        \A i, j \in DOMAIN p :
            i < j => media[p[i]].created_at <= media[p[j]].created_at}

\* SELECT * FROM media WHERE note_id = ? ORDER BY created_at
getMediaForNote(noteId) ==
    {[i \in DOMAIN p |-> mediaRecord(p[i])] :
        p \in OrderByCreatedAt(getMediaForNoteRows(noteId))}

getMediaForNoteCall(noteId) ==
    /\ UNCHANGED <<notes, tags, tag_seq, note_tags, media, notes_fts,
                   idCounter, mediaCounter, clock>>
    /\ UNCHANGED <<inflight, mock, chat>>
    /\ last' = Result("getMediaForNote", [noteId |-> noteId], "none",
                      getMediaForNote(noteId))

\* ------------------------------------------------------ engine: search
RECURSIVE TrimStart(_)
TrimStart(t) == IF t # << >> /\ IsWhitespace(Head(t)) THEN TrimStart(Tail(t)) ELSE t

RECURSIVE TrimEnd(_)
TrimEnd(t) == IF t # << >> /\ IsWhitespace(t[Len(t)])
              THEN TrimEnd(SubSeq(t, 1, Len(t) - 1)) ELSE t

\* String.prototype.trim
Trim(t) == TrimEnd(TrimStart(t))

\* split(/\s+/).filter((w) => w.length > 0)
RECURSIVE SplitWords(_, _, _)
SplitWords(t, cur, acc) ==
    IF t = << >> THEN (IF cur = << >> THEN acc ELSE Append(acc, cur))
    ELSE IF IsWhitespace(Head(t))
         THEN SplitWords(Tail(t), << >>, IF cur = << >> THEN acc ELSE Append(acc, cur))
         ELSE SplitWords(Tail(t), Append(cur, Head(t)), acc)

EscapeQuotes_none(w) == w

\* word.replace(/"/g, '""')
RECURSIVE EscapeQuotes(_)
EscapeQuotes(w) ==
    IF w = << >> THEN << >>
    ELSE (IF Head(w) = "\"" THEN <<"\"", "\"">> ELSE <<Head(w)>>)
         \o EscapeQuotes(Tail(w))

RECURSIVE JoinWithSpace(_)
JoinWithSpace(ws) ==
    IF ws = << >> THEN << >>
    ELSE IF Len(ws) = 1 THEN ws[1]
    ELSE ws[1] \o <<" ">> \o JoinWithSpace(Tail(ws))

prepareFts5Query(input) ==
    LET trimmed == Trim(input)
        words   == SplitWords(trimmed, << >>, << >>)
        quotedWords == [i \in 1..Len(words) |->
                          <<"\"">> \o EscapeQuotes(words[i]) \o <<"\"">>
                          \o (IF i = Len(words) THEN <<"*">> ELSE << >>)]
    IN  IF trimmed = EmptyText \/ words = << >> THEN EmptyText
        ELSE JoinWithSpace(quotedWords)

\* the unicode61 tokenizer of notes_fts: runs of letters and digits, folded
\* to lower case
UpperChars == <<"A","B","C","D","E","F","G","H","I","J","K","L","M",
                "N","O","P","Q","R","S","T","U","V","W","X","Y","Z">>

LowerChars == <<"a","b","c","d","e","f","g","h","i","j","k","l","m",
                "n","o","p","q","r","s","t","u","v","w","x","y","z">>

Digits == {"0","1","2","3","4","5","6","7","8","9"}

IsAlnum(c) == \/ c \in Digits
              \/ \E k \in 1..26 : c = UpperChars[k] \/ c = LowerChars[k]

FoldCase(c) == IF \E k \in 1..26 : c = UpperChars[k]
               THEN LowerChars[CHOOSE k \in 1..26 : c = UpperChars[k]]
               ELSE c

RECURSIVE Tokenize(_, _, _)
Tokenize(t, cur, acc) ==
    IF t = << >> THEN (IF cur = << >> THEN acc ELSE Append(acc, cur))
    ELSE IF IsAlnum(Head(t))
         THEN Tokenize(Tail(t), Append(cur, FoldCase(Head(t))), acc)
         ELSE Tokenize(Tail(t), << >>, IF cur = << >> THEN acc ELSE Append(acc, cur))

Tokens(t) == Tokenize(t, << >>, << >>)

\* the FTS5 query syntax the engine produces: quoted strings, "" inside a
\* string standing for one quote, an optional * after the closing quote,
\* strings separated by spaces and combined by AND
RECURSIVE ParseFts5(_, _, _, _)
ParseFts5(q, inString, cur, acc) ==
    IF q = << >> THEN [ok |-> ~inString, phrases |-> acc]
    ELSE IF inString
    THEN IF Head(q) = "\""
         THEN IF Len(q) >= 2 /\ q[2] = "\""
              THEN ParseFts5(Tail(Tail(q)), TRUE, Append(cur, "\""), acc)
              ELSE IF Len(q) >= 2 /\ q[2] = "*"
              THEN ParseFts5(Tail(Tail(q)), FALSE, << >>,
                             Append(acc, [text |-> cur, prefix |-> TRUE]))
              ELSE ParseFts5(Tail(q), FALSE, << >>,
                             Append(acc, [text |-> cur, prefix |-> FALSE]))
         ELSE ParseFts5(Tail(q), TRUE, Append(cur, Head(q)), acc)
    ELSE IF Head(q) = "\"" THEN ParseFts5(Tail(q), TRUE, << >>, acc)
    ELSE IF Head(q) = " " THEN ParseFts5(Tail(q), FALSE, << >>, acc)
    ELSE [ok |-> FALSE, phrases |-> acc]

IsPrefixOf(p, w) == Len(p) <= Len(w) /\ SubSeq(w, 1, Len(p)) = p

\* a phrase matches a column when its tokens occur there consecutively, the
\* last one as a prefix if the phrase carries the * marker
PhraseMatchesColumn(phrase, column) ==
    LET p == Tokens(phrase.text)
        c == Tokens(column)
    IN  /\ p # << >>
        /\ \E start \in 1..Len(c) :
              /\ start + Len(p) - 1 <= Len(c)
              /\ \A k \in 1..Len(p) :
                    IF k = Len(p) /\ phrase.prefix
                    THEN IsPrefixOf(p[k], c[start + k - 1])
                    ELSE p[k] = c[start + k - 1]

FtsMatch(fts5Query, entry) ==
    LET parsed == ParseFts5(fts5Query, FALSE, << >>, << >>)
    IN  /\ parsed.ok
        /\ \A i \in 1..Len(parsed.phrases) :
              \/ PhraseMatchesColumn(parsed.phrases[i], entry.title)
              \/ PhraseMatchesColumn(parsed.phrases[i], entry.body)

search_noEmptyCheck(query) ==
    {n \in DOMAIN notes :
        \E e \in notes_fts :
            e.rowid = notes[n].rowid /\ FtsMatch(prepareFts5Query(query), e)}

\* search: the ids of the notes joined to the index entries that match
search(query) ==
    LET fts5Query == prepareFts5Query(query)
    IN  IF fts5Query = EmptyText THEN {}
        ELSE {n \in DOMAIN notes :
                \E e \in notes_fts : e.rowid = notes[n].rowid /\ FtsMatch(fts5Query, e)}

\* ORDER BY rank: bm25 reads only the indexed title and body; among rows
\* that match with equal term frequency the shorter document ranks first
RankKey(entry) == Len(Tokens(entry.title)) + Len(Tokens(entry.body))

\* the orders in which search can return its rows
searchOrders(query) ==
    {s \in Perms(search(query)) :
        \A i, j \in 1..Len(s) :
            i < j => RankKey(FtsEntry(notes[s[i]])) <= RankKey(FtsEntry(notes[s[j]]))}

\* the characters typed into the search box
QueryChars == {"d", " ", "\t", "\"", "*"}

\* the query of the previous search call, which the next keystroke extends
TypedQuery == IF last.op = "search" THEN last.args.query ELSE EmptyText

\* one call of search, as issued on each keystroke
searchCall(query) ==
    /\ Len(query) <= MaxQueryLen
    /\ UNCHANGED <<notes, tags, tag_seq, note_tags, media, notes_fts,
                   idCounter, mediaCounter, clock>>
    /\ UNCHANGED <<inflight, mock, chat>>
    /\ last' = Result("search",
                      [query |-> query, fts5Query |-> prepareFts5Query(query)],
                      "none", searchOrders(query))

Q_dev   == <<"D","E">>
Q_olddev == <<" ","o","l","d"," "," ","d","e"," ">>
Q_https == <<"h","t","t","p","s">>
Q_x     == <<"x">>

Queries == {EmptyText, Q_dev, Q_olddev, Q_https, Q_x}

\* ------------------------------------------- engine: calls in flight
\* An async method runs synchronously up to its first await and is suspended
\* there; suspended calls are resumed in the order in which they were
\* suspended.  inflight is that queue.  A call records the caller, the
\* method, the await it is suspended at (pc), its arguments, the value of its
\* local `existing` / `note`, the ids deleteNotes has still to delete, and
\* whether its INSERT INTO tags created a row.
Call(caller, op, pc, args, existing, rest, created) ==
    [caller |-> caller, op |-> op, pc |-> pc, args |-> args,
     existing |-> existing, rest |-> rest, created |-> created]

IsIdle(c) == \A i \in DOMAIN inflight : inflight[i].caller # c

\* a call is inside its synchronous section, between two statements: no
\* other call can run until it reaches its next await
Running == inflight # << >> /\ Head(inflight).pc = "insertedTag"

\* a call was suspended: nothing is returned to its caller yet
Suspended(call) ==
    Result("await", [caller |-> call.caller, op |-> call.op], "none", Null)

\* updateNote up to `const existing = await api.getNote(input.id)`
updateNoteBegin(c, id, title, body) ==
    LET args == [id |-> id, title |-> title, body |-> body]
        call == Call(c, "updateNote", "getNote", args, getNote(id), << >>, FALSE)
    IN  /\ ~Running
        /\ IsIdle(c)
        /\ inflight' = Append(inflight, call)
        /\ UNCHANGED <<notes, tags, tag_seq, note_tags, media, notes_fts,
                       idCounter, mediaCounter, clock>>
        /\ UNCHANGED <<mock, chat>>
        /\ last' = Suspended(call)

\* UPDATE notes SET ... WHERE id = ?: no row, no change and no error
UpdateNoteRow(db, id, f, timestamp) ==
    IF id \in DOMAIN db.notes
    THEN LET old == db.notes[id]
             new == UpdatedRow(old, f, timestamp)
         IN  [db EXCEPT !.notes = [db.notes EXCEPT ![id] = new],
                        !.notes_fts = notes_fts_update(db.notes_fts, old, new)]
    ELSE db

\* updateNote from the await to its return
updateNoteResume(timestamp) ==
    /\ inflight # << >>
    /\ Head(inflight).op = "updateNote"
    /\ LET call == Head(inflight)
           existing == call.existing
       IN  IF existing = Null
           THEN /\ UNCHANGED <<notes, tags, tag_seq, note_tags, media,
                               notes_fts, idCounter, mediaCounter, clock>>
                /\ inflight' = Tail(inflight)
                /\ UNCHANGED <<mock, chat>>
                /\ last' = Result("updateNote", call.args, NoteNotFound, Null)
           ELSE LET f   == updateNoteFields(existing, call.args.title,
                                            call.args.body)
                    db  == UpdateNoteRow(CurrentDb, call.args.id, f, timestamp)
                    ret == [existing EXCEPT !.title = f.title, !.body = f.body,
                                            !.has_links = (f.hasLinks = 1),
                                            !.updated_at = timestamp]
                IN  /\ clock' = timestamp
                    /\ notes' = db.notes
                    /\ notes_fts' = db.notes_fts
                    /\ UNCHANGED <<tags, tag_seq, note_tags, media,
                                   idCounter, mediaCounter>>
                    /\ inflight' = Tail(inflight)
                    /\ UNCHANGED <<mock, chat>>
                    /\ last' = Result("updateNote", call.args, "none", ret)

\* deleteNotes up to its first `await api.deleteNote(id)`: the DELETE of the
\* first id has run when the call is suspended
deleteNotesBegin(c, ids) ==
    LET db   == IF ids = << >> THEN CurrentDb
                ELSE DeleteNoteRow(CurrentDb, Head(ids))
        args == [ids |-> ids]
        call == Call(c, "deleteNotes", "deleteNote", args, Null,
                     IF ids = << >> THEN << >> ELSE Tail(ids), FALSE)
    IN  /\ ~Running
        /\ IsIdle(c)
        /\ notes' = db.notes
        /\ notes_fts' = db.notes_fts
        /\ note_tags' = db.note_tags
        /\ media' = db.media
        /\ UNCHANGED <<tags, tag_seq, idCounter, mediaCounter, clock>>
        /\ inflight' = IF ids = << >> THEN inflight ELSE Append(inflight, call)
        /\ UNCHANGED <<mock, chat>>
        /\ last' = IF ids = << >>
                   THEN Result("deleteNotes", args, "none", Null)
                   ELSE Suspended(call)

\* deleteNotes from one await to the next, or to its return
deleteNotesResume ==
    /\ inflight # << >>
    /\ Head(inflight).op = "deleteNotes"
    /\ LET call == Head(inflight)
           done == call.rest = << >>
           db   == IF done THEN CurrentDb
                   ELSE DeleteNoteRow(CurrentDb, Head(call.rest))
           next == [call EXCEPT !.rest = Tail(call.rest)]
       IN  /\ notes' = db.notes
           /\ notes_fts' = db.notes_fts
           /\ note_tags' = db.note_tags
           /\ media' = db.media
           /\ UNCHANGED <<tags, tag_seq, idCounter, mediaCounter, clock>>
           /\ inflight' = IF done THEN Tail(inflight)
                          ELSE Append(Tail(inflight), next)
           /\ UNCHANGED <<mock, chat>>
           /\ last' = IF done
                      THEN Result("deleteNotes", call.args, "none", Null)
                      ELSE Suspended(next)

\* addTag up to `const existing = await api.getNote(noteId)`
addTagBegin(c, noteId, tagName) ==
    LET args == [noteId |-> noteId, tagName |-> tagName]
        call == Call(c, "addTag", "getNote", args, getNote(noteId), << >>, FALSE)
    IN  /\ ~Running
        /\ IsIdle(c)
        /\ inflight' = Append(inflight, call)
        /\ UNCHANGED <<notes, tags, tag_seq, note_tags, media, notes_fts,
                       idCounter, mediaCounter, clock>>
        /\ UNCHANGED <<mock, chat>>
        /\ last' = Suspended(call)

AddTagFirstStatement_both(tg, seq, nt, noteId, tagName) ==
    LET ins == InsertOrIgnoreTag(tg, seq, nt, tagName)
        tagId == CHOOSE t \in DOMAIN ins.tags : ins.tags[t].name = tagName
    IN  [ins EXCEPT !.note_tags = InsertOrIgnoreNoteTag(nt, noteId, tagId)]

\* what addTag's first write commits: the tag row, and no association
AddTagFirstStatement(tg, seq, nt, noteId, tagName) ==
    InsertOrIgnoreTag(tg, seq, nt, tagName)

\* addTag from the await to INSERT OR IGNORE INTO tags
addTagInsertTag ==
    /\ inflight # << >>
    /\ Head(inflight).op = "addTag"
    /\ Head(inflight).pc = "getNote"
    /\ LET call == Head(inflight)
           ins  == AddTagFirstStatement(tags, tag_seq, note_tags,
                                        call.args.noteId, call.args.tagName)
           next == [call EXCEPT !.pc = "insertedTag",
                                !.created = (tag_seq # ins.tag_seq)]
       IN  IF call.existing = Null
           THEN /\ UNCHANGED <<notes, tags, tag_seq, note_tags, media,
                               notes_fts, idCounter, mediaCounter, clock>>
                /\ inflight' = Tail(inflight)
                /\ UNCHANGED <<mock, chat>>
                /\ last' = Result("addTag", call.args, NoteNotFound, Null)
           ELSE /\ tags' = ins.tags
                /\ tag_seq' = ins.tag_seq
                /\ note_tags' = ins.note_tags
                /\ UNCHANGED <<notes, media, notes_fts, idCounter,
                               mediaCounter, clock>>
                /\ inflight' = <<next>> \o Tail(inflight)
                /\ UNCHANGED <<mock, chat>>
                /\ last' = Result("statement", [caller |-> call.caller,
                                                op |-> call.op], "none", Null)

\* addTag from SELECT id FROM tags to `await api.getNote(noteId)`: the
\* foreign key of note_tags fails the INSERT when the note is gone
addTagInsertNoteTag ==
    /\ Running
    /\ LET call  == Head(inflight)
           tagId == CHOOSE t \in DOMAIN tags : tags[t].name = call.args.tagName
           nt    == InsertOrIgnoreNoteTag(note_tags, call.args.noteId, tagId)
           note  == getNoteIn(notes, tags, nt, call.args.noteId)
           next  == [call EXCEPT !.pc = "getNoteAfter", !.existing = note]
       IN  IF call.args.noteId \notin DOMAIN notes
           THEN /\ UNCHANGED <<notes, tags, tag_seq, note_tags, media,
                               notes_fts, idCounter, mediaCounter, clock>>
                /\ inflight' = Tail(inflight)
                /\ UNCHANGED <<mock, chat>>
                /\ last' = Result("addTag", call.args, "ForeignKey", Null)
           ELSE /\ note_tags' = nt
                /\ UNCHANGED <<notes, tags, tag_seq, media, notes_fts,
                               idCounter, mediaCounter, clock>>
                /\ inflight' = Append(Tail(inflight), next)
                /\ UNCHANGED <<mock, chat>>
                /\ last' = Suspended(next)

\* addTag from its last await to its return
addTagReturn ==
    /\ inflight # << >>
    /\ Head(inflight).pc = "getNoteAfter"
    /\ LET call == Head(inflight)
       IN  /\ UNCHANGED <<notes, tags, tag_seq, note_tags, media, notes_fts,
                          idCounter, mediaCounter, clock>>
           /\ inflight' = Tail(inflight)
           /\ UNCHANGED <<mock, chat>>
           /\ last' = Result("addTag", call.args,
                             IF call.existing = Null THEN NoteNotFound
                             ELSE "none", call.existing)

\* the process stops: the calls in flight are lost, and the store keeps what
\* each statement wrote (db.run commits each statement; no transaction is
\* opened)
crash ==
    /\ inflight # << >>
    /\ UNCHANGED <<notes, tags, tag_seq, note_tags, media, notes_fts,
                   idCounter, mediaCounter, clock>>
    /\ inflight' = << >>
    /\ UNCHANGED <<mock, chat>>
    /\ last' = Result("crash", [interrupted |-> Head(inflight)], "none", Null)

IdLists == {<< >>} \cup {<<i>> : i \in IdArgs} \cup {<<i, j>> : i, j \in IdArgs}

\* tagging, with the fixed clock of the tag tests and one note content
NextTags ==
    \/ createNote(Undefined, B_old, clock)
    \/ \E id \in IdArgs : deleteNote(id)
    \/ \E ids \in IdLists : deleteNotes(ids)
    \/ \E id \in IdArgs, n \in TagNames : addTag(id, n)
    \/ \E id \in IdArgs, n \in TagNames : removeTag(id, n)
    \/ \E o \in TagNames, n \in TagNames : renameTag(o, n)
    \/ \E t \in TagIdArgs : deleteTag(t)
    \/ \E t \in TagIdArgs, i \in Icons : updateTagIcon(t, i)

SpecTags == Init /\ [][NextTags]_vars

\* note content and the search index under an advancing clock
NextContent ==
    \/ \E t \in TitleArgs, b \in Bodies, ts \in NowValues : createNote(t, b, ts)
    \/ \E id \in IdArgs, t \in TitleArgs, b \in BodyArgs, ts \in NowValues :
          updateNote(id, t, b, ts)
    \/ \E id \in IdArgs : deleteNote(id)

SpecContent == Init /\ [][NextContent]_vars

\* updates and flag toggles on tagged notes
NextFlags ==
    \/ \E ts \in NowValues : createNote(Undefined, B_old, ts)
    \/ \E id \in IdArgs, t \in {Undefined, T_Dev}, b \in {Undefined, B_https},
          ts \in NowValues : updateNote(id, t, b, ts)
    \/ \E id \in IdArgs, ts \in NowValues : togglePinNote(id, ts)
    \/ \E id \in IdArgs, ts \in NowValues : toggleArchiveNote(id, ts)
    \/ \E id \in IdArgs : addTag(id, "a")

SpecFlags == Init /\ [][NextFlags]_vars

\* the lifecycle of a note's dependent rows
NextLifecycle ==
    \/ createNote(Undefined, B_old, clock)
    \/ \E id \in IdArgs : deleteNote(id)
    \/ \E ids \in IdLists : deleteNotes(ids)
    \/ \E id \in IdArgs : toggleArchiveNote(id, clock)
    \/ \E id \in IdArgs, n \in TagNames : addTag(id, n)
    \/ \E id \in IdArgs, m \in MimeTypes : workerStoreMedia(id, m)

SpecLifecycle == Init /\ [][NextLifecycle]_vars

\* the listings under pinning, archiving and tagging
NextViews ==
    \/ \E t \in {Undefined, T_Dev}, b \in {B_old, B_https}, ts \in NowValues :
          createNote(t, b, ts)
    \/ \E id \in IdArgs, ts \in NowValues : togglePinNote(id, ts)
    \/ \E id \in IdArgs, ts \in NowValues : toggleArchiveNote(id, ts)
    \/ \E id \in IdArgs : addTag(id, "a")
    \/ \E id \in IdArgs : removeTag(id, "a")
    \/ \E t \in TagIdArgs : deleteTag(t)

SpecViews == Init /\ [][NextViews]_vars

\* the worker variant next to the engine
NextWorker ==
    \/ createNote(Undefined, B_old, clock)
    \/ \E id \in IdArgs : deleteNote(id)
    \/ \E id \in IdArgs, n \in TagNames : addTag(id, n)
    \/ \E id \in IdArgs, n \in TagNames : workerAddTag(id, n)
    \/ \E id \in IdArgs, m \in MimeTypes : workerStoreMedia(id, m)

SpecWorker == Init /\ [][NextWorker]_vars

\* two callers with calls in flight at the same time
NextInterleave ==
    \/ ~Running /\ createNote(Undefined, B_old, clock)
    \/ ~Running /\ \E id \in DOMAIN notes : deleteNote(id)
    \/ \E c \in Callers, id \in 1..MaxNotes :
          \/ updateNoteBegin(c, id, T_Dev, Undefined)
          \/ updateNoteBegin(c, id, Undefined, B_https)
    \/ updateNoteResume(clock)
    \/ \E c \in Callers : deleteNotesBegin(c, <<1, 2>>)
    \/ deleteNotesResume
    \/ \E c \in Callers, id \in 1..MaxNotes : addTagBegin(c, id, "a")
    \/ addTagInsertTag
    \/ addTagInsertNoteTag
    \/ addTagReturn
    \/ crash

SpecInterleave == Init /\ [][NextInterleave]_vars

\* the base engine's media operations over rows written into the table
MediaIdArgs == 0..MaxMedia

NextMedia ==
    \/ createNote(Undefined, B_old, clock)
    \/ \E id \in IdArgs : deleteNote(id)
    \/ \E id \in IdArgs, m \in MimeTypes, t \in 0..MaxTime :
          insertMediaRow(id, m, t)
    \/ \E id \in IdArgs, m \in MimeTypes : storeMedia(id, m)
    \/ \E k \in MediaIdArgs : getMedia(k)
    \/ \E k \in MediaIdArgs : deleteMedia(k)
    \/ \E id \in IdArgs : getMediaForNoteCall(id)

SpecMedia == Init /\ [][NextMedia]_vars

\* the conformance harness: every call goes to the mock DB and then, with
\* the same arguments, to the engine
mockCall(op, args, next) ==
    /\ last.op # "mockCall"
    /\ mock' = next
    /\ UNCHANGED <<notes, tags, tag_seq, note_tags, media, notes_fts,
                   idCounter, mediaCounter, clock, inflight>>
    /\ UNCHANGED chat
    /\ last' = Result("mockCall", [op |-> op, args |-> args], "none", Null)

\* the engine's turn for the call the mock DB has just served
EngineTurn(op, args) ==
    last.op = "mockCall" /\ last.args = [op |-> op, args |-> args]

AddTagArgs(id, n) == [noteId |-> id, tagName |-> n]
RenameTagArgs(o, n) == [oldName |-> o, newName |-> n]
UpdateTagIconArgs(t, i) == [tagId |-> t, icon |-> i]

NextConformance ==
    \/ mock.noteId <= MaxNotes
       /\ mockCall("createNote", << >>, MockCreateNote(mock))
    \/ EngineTurn("createNote", << >>) /\ createNote(Undefined, B_old, clock)
    \/ \E id \in IdArgs, n \in TagNames :
          /\ MockFindTag(mock, n) = {} => mock.tagId <= MaxTagId
          /\ mockCall("addTag", AddTagArgs(id, n), MockAddTag(mock, id, n))
    \/ \E id \in IdArgs, n \in TagNames :
          EngineTurn("addTag", AddTagArgs(id, n)) /\ addTag(id, n)
    \/ \E o \in TagNames, n \in TagNames :
          mockCall("renameTag", RenameTagArgs(o, n), MockRenameTag(mock, o, n))
    \/ \E o \in TagNames, n \in TagNames :
          EngineTurn("renameTag", RenameTagArgs(o, n)) /\ renameTag(o, n)
    \/ \E t \in TagIdArgs, i \in Icons :
          mockCall("updateTagIcon", UpdateTagIconArgs(t, i),
                   MockUpdateTagIcon(mock, t, i))
    \/ \E t \in TagIdArgs, i \in Icons :
          EngineTurn("updateTagIcon", UpdateTagIconArgs(t, i))
          /\ updateTagIcon(t, i)

SpecConformance == Init /\ [][NextConformance]_vars

\* ------------------------------------------------ chat loop: actions
ChatStep(next, op, args) ==
    /\ chat' = next
    /\ UNCHANGED <<notes, tags, tag_seq, note_tags, media, notes_fts,
                   idCounter, mediaCounter, clock, inflight, mock>>
    /\ last' = Result(op, args, "none", Null)

\* send(userInput): returns at once while loading
send ==
    /\ ~chat.loading
    /\ ChatStep(NextIteration([chat EXCEPT !.loading = TRUE, !.iterations = 0,
                                           !.requests = 0, !.exit = "none",
                                           !.limitMsg = FALSE]),
                "send", << >>)

\* the stream ends and the response is parsed
llmResponds(calls) ==
    /\ chat.pc = "stream"
    /\ ChatStep(IF calls = << >> THEN Finish(chat, "answer")
                ELSE [chat EXCEPT !.pc = "tools", !.queue = calls],
                "stream", [toolCalls |-> calls])

\* client.stream throws
streamFails ==
    /\ chat.pc = "stream"
    /\ ChatStep(Finish(chat, "error"), "streamError", << >>)

\* cancel(): the AbortController aborts the stream
cancel ==
    /\ chat.pc = "stream"
    /\ ChatStep(Finish(chat, "abort"), "cancel", << >>)

\* executeTool(db, call) for the next call of the response, up to its
\* db.deleteNote call if it makes one
executeTool ==
    /\ chat.pc = "tools"
    /\ LET call == Head(chat.queue)
       IN  ChatStep(
             IF ~call.hasId \/ call.name = "list_notes"
               THEN NextToolCall(chat)
             ELSE IF call.name = "delete_note"
               THEN Finish([chat EXCEPT !.pending = [id |-> call.id]], "confirm")
             ELSE [chat EXCEPT !.pc = "awaitDb", !.deleting = call.id],
             "executeTool", call)

\* the engine serves the db.deleteNote call of executeTool
dbDeleteNote ==
    /\ chat.pc \in {"awaitDb", "confirmAwaitDb"}
    /\ last.op # "deleteNote"
    /\ \E id \in 1..MaxNotes : chat.deleting = id /\ deleteNote(id)

\* executeTool returns to the loop of send()
toolReturns ==
    /\ chat.pc = "awaitDb"
    /\ last.op = "deleteNote"
    /\ ChatStep(NextToolCall(chat), "toolResult", << >>)

\* confirmDelete(confirmed): returns at once without a pending confirmation
confirmDelete(confirmed) ==
    /\ chat.pending # Null
    /\ chat.pc = "idle"
    /\ ChatStep([chat EXCEPT !.pending = Null, !.loading = TRUE,
                             !.pc = IF confirmed THEN "confirmAwaitDb"
                                    ELSE "confirmStream",
                             !.deleting = IF confirmed THEN chat.pending.id
                                          ELSE @],
                "confirmDelete", [confirmed |-> confirmed])

\* executeTool returns to confirmDelete
confirmReturns ==
    /\ chat.pc = "confirmAwaitDb"
    /\ last.op = "deleteNote"
    /\ ChatStep([chat EXCEPT !.pc = "confirmStream"], "toolResult", << >>)

\* the follow-up stream of confirmDelete ends, fails or is aborted
confirmFollowUp ==
    /\ chat.pc = "confirmStream"
    /\ ChatStep([chat EXCEPT !.pc = "idle", !.loading = FALSE],
                "followUp", << >>)

\* what the hook, the model and the engine do once a send() is running
ChatProgress ==
    \/ \E calls \in Responses : llmResponds(calls)
    \/ streamFails
    \/ executeTool
    \/ dbDeleteNote
    \/ toolReturns
    \/ confirmReturns
    \/ confirmFollowUp

NextChat ==
    \/ chat.pc \notin {"awaitDb", "confirmAwaitDb"}
       /\ createNote(Undefined, B_old, clock)
    \/ send
    \/ \E calls \in Responses : llmResponds(calls)
    \/ streamFails
    \/ cancel
    \/ executeTool
    \/ dbDeleteNote
    \/ toolReturns
    \/ \E confirmed \in BOOLEAN : confirmDelete(confirmed)
    \/ confirmReturns
    \/ confirmFollowUp

SpecChat == Init /\ [][NextChat]_vars /\ WF_vars(ChatProgress)

\* search as the query is typed
NextSearch ==
    \/ \E t \in {Undefined, T_Dev} : createNote(t, B_old, clock)
    \/ \E c \in QueryChars : searchCall(Append(TypedQuery, c))

SpecSearch == Init /\ [][NextSearch]_vars

TypeOK ==
    /\ DOMAIN notes \subseteq 1..MaxNotes
    /\ DOMAIN tags \subseteq 1..MaxTagId
    /\ tag_seq \in 0..MaxTagId
    /\ idCounter \in 0..MaxNotes
    /\ mediaCounter \in 0..MaxMedia
    /\ clock \in 0..MaxTime
    /\ Len(inflight) <= Cardinality(Callers)
    /\ \A i \in DOMAIN inflight : inflight[i].caller \in Callers
    /\ mock.noteId \in 1..(MaxNotes + 1)
    /\ mock.tagId \in 1..(MaxTagId + 1)
    /\ chat.iterations \in 0..MAX_TOOL_ITERATIONS
    /\ chat.loading \in BOOLEAN
    /\ Len(chat.queue) <= 2

\* ============================================================ properties
TagNamesUnique ==
    \A t1, t2 \in DOMAIN tags : tags[t1].name = tags[t2].name => t1 = t2

NotesWithTagIn(tg, nt, name) ==
    {r[1] : r \in {x \in DOMAIN nt : x[2] \in DOMAIN tg /\ tg[x[2]].name = name}}

TagNamesOfIn(tg, nt, noteId) ==
    {tg[r[2]].name : r \in {x \in DOMAIN nt : x[1] = noteId /\ x[2] \in DOMAIN tg}}

\* C1: in every reachable state no two tag rows share a name, and renameTag
\* never fails with a uniqueness violation.
C1_UniqueNamesAndRenameNeverFails ==
    /\ TagNamesUnique
    /\ ~(last.op = "renameTag" /\ last.err = "UniqueViolation")

\* C2: renameTag(oldName, newName) with both names present as distinct tags
\* merges them: one tag named newName remains, none named oldName, every note
\* that had either name has newName exactly once.
C2_RenameMergesIntoExisting ==
    [][(/\ last'.op = "renameTag"
        /\ last'.args.oldName # last'.args.newName
        /\ TagIdByName(last'.args.oldName) # {}
        /\ TagIdByName(last'.args.newName) # {})
       => LET o == last'.args.oldName
              n == last'.args.newName
          IN  /\ last'.err = "none"
              /\ Cardinality({t \in DOMAIN tags' : tags'[t].name = n}) = 1
              /\ {t \in DOMAIN tags' : tags'[t].name = o} = {}
              /\ NotesWithTagIn(tags', note_tags', n)
                    = NotesWithTagIn(tags, note_tags, o)
                        \cup NotesWithTagIn(tags, note_tags, n)
              /\ \A r \in DOMAIN note_tags' : note_tags'[r] = 1]_vars

\* C3: every note_tags row refers to a note row and a tag row that both exist.
C3_NoOrphanNoteTags ==
    \A r \in DOMAIN note_tags : r[1] \in DOMAIN notes /\ r[2] \in DOMAIN tags

C3_Witness ==
    /\ last.op = "deleteNote"
    /\ last.changed
    /\ last.args.id \notin DOMAIN notes
    /\ DOMAIN note_tags # {}
    /\ \E t \in DOMAIN tags : \A r \in DOMAIN note_tags : r[2] # t

\* C4: the full-text index holds exactly one entry per existing note, with
\* that note's current title and body, so search finds exactly the existing
\* notes whose current text matches.
C4_IndexMirrorsNotes ==
    /\ notes_fts = {FtsEntry(notes[n]) : n \in DOMAIN notes}
    /\ Cardinality(notes_fts) = Cardinality(DOMAIN notes)
    /\ \A q \in Queries :
          search(q) = IF prepareFts5Query(q) = EmptyText THEN {}
                      ELSE {n \in DOMAIN notes :
                              FtsMatch(prepareFts5Query(q),
                                       [title |-> notes[n].title,
                                        body |-> notes[n].body])}

C4_Witness ==
    /\ last.op = "updateNote"
    /\ last.err = "none"
    /\ last.args.body = B_https
    /\ last.args.id \in search(Q_https)
    /\ last.args.id \notin search(Q_olddev)
    /\ idCounter > Cardinality(DOMAIN notes)

\* C5: for every note the stored has_links flag equals containsUrl of the
\* stored body.
C5_HasLinksCurrent ==
    \A n \in DOMAIN notes :
        notes[n].has_links = (IF containsUrl(notes[n].body) THEN 1 ELSE 0)

C5_Witness ==
    /\ last.op = "updateNote"
    /\ last.err = "none"
    /\ last.args.body = Undefined
    /\ last.args.title # Undefined
    /\ notes[last.args.id].has_links = 1
    /\ \E n \in DOMAIN notes : notes[n].body = B_bare /\ notes[n].has_links = 0

\* C6: deleteNote(id) of an existing note removes the note from getNote and
\* from every listing, removes its note_tags and media rows, and leaves all
\* other notes, their tags and their media unchanged.
C6_DeleteNoteRemovesOnlyThatNote ==
    [][\A id \in IdArgs :
        (last'.op = "deleteNote" /\ last'.args.id = id /\ id \in DOMAIN notes)
        => /\ last'.err = "none"
           /\ getNote(id)' = Null
           /\ id \notin getAllNotesRows'
           /\ id \notin getUntaggedNotesRows'
           /\ id \notin getLinkedNotesRows'
           /\ id \notin getArchivedNotesRows'
           /\ \A t \in DOMAIN tags : id \notin getNotesForTagRows(t)'
           /\ \A r \in DOMAIN note_tags' : r[1] # id
           /\ getMediaForNoteRows(id)' = {}
           /\ DOMAIN notes' = DOMAIN notes \ {id}
           /\ \A o \in DOMAIN notes \ {id} :
                 /\ notes'[o] = notes[o]
                 /\ getNote(o)' = getNote(o)
                 /\ getMediaForNoteRows(o)' = getMediaForNoteRows(o)
                 /\ \A k \in getMediaForNoteRows(o) : media'[k] = media[k]
           /\ tags' = tags]_vars

C6_Witness ==
    /\ last.op = "deleteNote"
    /\ last.changed
    /\ mediaCounter = 2
    /\ Cardinality(DOMAIN media) = 1
    /\ \E o \in DOMAIN notes :
          /\ getMediaForNoteRows(o) # {}
          /\ notes[o].archived = 1
          /\ \E r \in DOMAIN note_tags : r[1] = o

\* C7: addTag(noteId, name) on a note that already has the tag raises no
\* error and leaves the tag rows, the associations and the note's tag list
\* unchanged; after any successful addTag the pair exists exactly once.
C7_AddTagIdempotent ==
    [][(last'.op = "addTag" /\ last'.args.noteId \in DOMAIN notes)
       => LET id == last'.args.noteId
              nm == last'.args.tagName
          IN  /\ last'.err = "none"
              /\ \E t \in DOMAIN tags' :
                    /\ tags'[t].name = nm
                    /\ RowCount(note_tags', <<id, t>>) = 1
              /\ (nm \in TagNamesOfIn(tags, note_tags, id))
                    => /\ tags' = tags
                       /\ note_tags' = note_tags
                       /\ getTagsForNoteIn(tags', note_tags', id)
                             = getTagsForNoteIn(tags, note_tags, id)
                       /\ last'.ret.tags = getTagsForNoteIn(tags, note_tags, id)]_vars

C7_Witness ==
    /\ last.op = "addTag"
    /\ last.err = "none"
    /\ ~last.changed
    /\ Len(last.ret.tags) = 2

\* C8: getNote(createNote(input).id), before any further mutation, equals the
\* note createNote returned in every field, with an empty tag list,
\* pinned = false and archived = false.
C8_CreateThenGetEqual ==
    last.op = "createNote"
    => /\ getNote(last.ret.id) = last.ret
       /\ last.ret.tags = << >>
       /\ "pinned" \in DOMAIN last.ret /\ last.ret.pinned = FALSE
       /\ "archived" \in DOMAIN last.ret /\ last.ret.archived = FALSE

\* C9: updateNote, togglePinNote and toggleArchiveNote on an id that does not
\* exist fail with NotFound and leave the whole store unchanged.
C9_NotFoundLeavesStoreUnchanged ==
    [][(/\ last'.op \in {"updateNote", "togglePinNote", "toggleArchiveNote"}
        /\ last'.args.id \notin DOMAIN notes)
       => /\ last'.err = "NotFound"
          /\ Store' = Store]_vars

C9_Witness ==
    /\ last.op = "updateNote"
    /\ last.err = "NotFound"
    /\ ~last.changed
    /\ last.args.body # Undefined
    /\ DOMAIN notes # {}
    /\ DOMAIN note_tags # {}

\* C10: updateNote on an existing note writes the supplied title and body,
\* keeps an omitted one, and leaves the note's tags, pinned, archived,
\* created_at and every other note unchanged.
C10_UpdateNoteFrame ==
    [][(last'.op = "updateNote" /\ last'.args.id \in DOMAIN notes)
       => LET id == last'.args.id
              t  == last'.args.title
              b  == last'.args.body
          IN  /\ last'.err = "none"
              /\ DOMAIN notes' = DOMAIN notes
              /\ notes'[id].title = (IF t = Undefined THEN notes[id].title ELSE t)
              /\ notes'[id].body = (IF b = Undefined THEN notes[id].body ELSE b)
              /\ notes'[id].pinned = notes[id].pinned
              /\ notes'[id].archived = notes[id].archived
              /\ notes'[id].created_at = notes[id].created_at
              /\ \A o \in DOMAIN notes \ {id} : notes'[o] = notes[o]
              /\ tags' = tags
              /\ note_tags' = note_tags
              /\ media' = media
              /\ last'.ret.tags = getTagsForNoteIn(tags, note_tags, id)]_vars

C10_Witness ==
    /\ last.op = "updateNote"
    /\ last.err = "none"
    /\ last.args.title = Undefined
    /\ last.args.body = B_https
    /\ notes[last.args.id].title = T_Dev
    /\ notes[last.args.id].pinned = 1
    /\ notes[last.args.id].archived = 1
    /\ Len(last.ret.tags) = 1
    /\ Cardinality(DOMAIN notes) = 2

\* the elements of a result list
Elems(s) == {s[i] : i \in 1..Len(s)}

\* pinned notes before unpinned ones, newest-updated first within each group
PinnedFirstThenNewest(s) ==
    \A i, j \in 1..Len(s) :
        i < j => \/ notes[s[i]].pinned > notes[s[j]].pinned
                 \/ /\ notes[s[i]].pinned = notes[s[j]].pinned
                    /\ notes[s[i]].updated_at >= notes[s[j]].updated_at

NotArchived == {n \in DOMAIN notes : notes[n].archived = 0}

\* C11: getAllNotes returns exactly the non-archived notes, each once, pinned
\* notes first and newest-updated first within the pinned and the unpinned
\* group.
C11_GetAllNotesPinnedFirst ==
    \A s \in getAllNotes :
        /\ Elems(s) = NotArchived
        /\ Len(s) = Cardinality(NotArchived)
        /\ PinnedFirstThenNewest(s)

\* C12: an archived note is in getArchivedNotes and in none of getAllNotes,
\* getUntaggedNotes, getLinkedNotes, getNotesForTag; a non-archived note is in
\* getAllNotes and not in getArchivedNotes.
C12_ArchivedOnlyInArchiveView ==
    \A n \in DOMAIN notes :
        IF notes[n].archived = 1
        THEN /\ \A s \in getArchivedNotes : n \in Elems(s)
             /\ \A s \in getAllNotes : n \notin Elems(s)
             /\ \A s \in getUntaggedNotes : n \notin Elems(s)
             /\ \A s \in getLinkedNotes : n \notin Elems(s)
             /\ \A t \in DOMAIN tags : \A s \in getNotesForTag(t) : n \notin Elems(s)
        ELSE /\ \A s \in getAllNotes : n \in Elems(s)
             /\ \A s \in getArchivedNotes : n \notin Elems(s)

\* C13: among non-archived notes, getUntaggedNotes returns exactly those with
\* no association, getLinkedNotes exactly those with has_links, and
\* getNotesForTag(t) exactly those associated with t, each pinned first and
\* newest-updated first within a group.
C13_SmartViewsSelectAndOrder ==
    /\ \A s \in getUntaggedNotes :
          /\ Elems(s) = {n \in NotArchived : TagNamesOfIn(tags, note_tags, n) = {}}
          /\ PinnedFirstThenNewest(s)
    /\ \A s \in getLinkedNotes :
          /\ Elems(s) = {n \in NotArchived : notes[n].has_links = 1}
          /\ PinnedFirstThenNewest(s)
    /\ \A t \in DOMAIN tags : \A s \in getNotesForTag(t) :
          /\ Elems(s) = {n \in NotArchived : <<n, t>> \in DOMAIN note_tags}
          /\ PinnedFirstThenNewest(s)

\* C14: search returns the archived notes that match too, and in every
\* result list every non-archived note precedes every archived one.
C14_SearchArchivedLast ==
    \A q \in Queries : \A s \in searchOrders(q) :
        /\ \A n \in DOMAIN notes :
              (notes[n].archived = 1 /\ n \in search(q)) => n \in Elems(s)
        /\ \A i, j \in 1..Len(s) :
              i < j => ~(notes[s[i]].archived = 1 /\ notes[s[j]].archived = 0)

\* C15: togglePinNote flips only pinned and toggleArchiveNote only archived
\* on the target note; the other flag, title, body, has_links and tags are
\* unchanged, updated_at is refreshed, and the same toggle applied twice
\* restores the flag.
C15_ToggleFlipsOneFlag ==
    [][\A id \in IdArgs :
        (/\ last'.op \in {"togglePinNote", "toggleArchiveNote"}
         /\ last'.args.id = id
         /\ id \in DOMAIN notes)
        => LET f == IF last'.op = "togglePinNote" THEN "pinned" ELSE "archived"
               g == IF last'.op = "togglePinNote" THEN "archived" ELSE "pinned"
           IN  /\ last'.err = "none"
               /\ notes'[id][f] = 1 - notes[id][f]
               /\ notes'[id][g] = notes[id][g]
               /\ notes'[id].title = notes[id].title
               /\ notes'[id].body = notes[id].body
               /\ notes'[id].has_links = notes[id].has_links
               /\ notes'[id].created_at = notes[id].created_at
               /\ notes'[id].updated_at = clock'
               /\ getTagsForNoteIn(tags', note_tags', id)
                     = getTagsForNoteIn(tags, note_tags, id)
               /\ \A o \in DOMAIN notes \ {id} : notes'[o] = notes[o]
               /\ ToggledRow(notes'[id], f, clock')[f] = notes[id][f]]_vars

C15_Witness ==
    /\ last.op = "toggleArchiveNote"
    /\ last.err = "none"
    /\ notes[last.args.id].archived = 0
    /\ notes[last.args.id].pinned = 1
    /\ notes[last.args.id].updated_at > notes[last.args.id].created_at
    /\ getTagsForNoteIn(tags, note_tags, last.args.id) # << >>
    /\ Cardinality(DOMAIN notes) = 2

\* C16: the no-ops raise no error and leave the store unchanged: deleteNote
\* of a missing id, deleteNotes of an empty list, deleteTag of a missing id,
\* removeTag of a tag the existing note does not have, renameTag of a missing
\* old name, renameTag to the same name, updateTagIcon of a missing id.
C16_NoOpsChangeNothing ==
    [][(\/ last'.op = "deleteNote" /\ last'.args.id \notin DOMAIN notes
        \/ last'.op = "deleteNotes" /\ last'.args.ids = << >>
        \/ last'.op = "deleteTag" /\ last'.args.tagId \notin DOMAIN tags
        \/ /\ last'.op = "removeTag"
           /\ last'.args.noteId \in DOMAIN notes
           /\ last'.args.tagName
                 \notin TagNamesOfIn(tags, note_tags, last'.args.noteId)
        \/ last'.op = "renameTag" /\ TagIdByName(last'.args.oldName) = {}
        \/ last'.op = "renameTag" /\ last'.args.oldName = last'.args.newName
        \/ last'.op = "updateTagIcon" /\ last'.args.tagId \notin DOMAIN tags)
       => /\ last'.err = "none"
          /\ Store' = Store]_vars

C16_Witness ==
    /\ last.op = "renameTag"
    /\ last.args.oldName = last.args.newName
    /\ TagIdByName(last.args.oldName) # {}
    /\ last.err = "none"
    /\ ~last.changed
    /\ Cardinality(DOMAIN tags) = 2
    /\ DOMAIN note_tags # {}

\* C17: addTag(noteId, name) on a note that does not exist fails with
\* NotFound and leaves the store unchanged: no tag row and no association is
\* created.
C17_AddTagMissingNote ==
    [][(/\ last'.op \in {"addTag", "workerAddTag"}
        /\ last'.args.noteId \notin DOMAIN notes)
       => /\ last'.err = "NotFound"
          /\ tags' = tags
          /\ note_tags' = note_tags
          /\ Store' = Store]_vars

\* C18: deleteTag(id) of an existing tag removes the tag row and every
\* association to it: the tag is gone from getAllTags and from the tag list
\* of every note; the notes, their other tags and the other tag rows are
\* unchanged.
C18_DeleteTagRemovesTagEverywhere ==
    [][\A t \in TagIdArgs :
        (last'.op = "deleteTag" /\ last'.args.tagId = t /\ t \in DOMAIN tags)
        => LET Other(x) == x.id # t
           IN  /\ last'.err = "none"
               /\ DOMAIN tags' = DOMAIN tags \ {t}
               /\ \A u \in DOMAIN tags' : tags'[u] = tags[u]
               /\ getAllTags' = SelectSeq(getAllTags, Other)
               /\ \A r \in DOMAIN note_tags' : r[2] # t
               /\ \A r \in DOMAIN note_tags : r[2] # t => r \in DOMAIN note_tags'
               /\ \A n \in DOMAIN notes :
                     getTagsForNoteIn(tags', note_tags', n)
                        = SelectSeq(getTagsForNoteIn(tags, note_tags, n), Other)
               /\ notes' = notes]_vars

C18_Witness ==
    /\ last.op = "deleteTag"
    /\ last.err = "none"
    /\ last.changed
    /\ last.args.tagId \notin DOMAIN tags
    /\ tag_seq = 2
    /\ Cardinality(DOMAIN notes) = 2
    /\ \E n \in DOMAIN notes : Len(getTagsForNoteIn(tags, note_tags, n)) = 1
    /\ \E n \in DOMAIN notes : getTagsForNoteIn(tags, note_tags, n) = << >>

\* C19: renameTag(oldName, newName) with oldName present and newName absent
\* renames the row in place: same id and icon, the same notes associated, no
\* note still shows oldName, no other tag changes.
C19_RenameInPlace ==
    [][(/\ last'.op = "renameTag"
        /\ TagIdByName(last'.args.oldName) # {}
        /\ TagIdByName(last'.args.newName) = {})
       => LET o == last'.args.oldName
              n == last'.args.newName
          IN  /\ last'.err = "none"
              /\ DOMAIN tags' = DOMAIN tags
              /\ \A t \in DOMAIN tags :
                    IF tags[t].name = o
                    THEN /\ tags'[t].name = n
                         /\ tags'[t].icon = tags[t].icon
                    ELSE tags'[t] = tags[t]
              /\ note_tags' = note_tags
              /\ NotesWithTagIn(tags', note_tags', n)
                    = NotesWithTagIn(tags, note_tags, o)
              /\ NotesWithTagIn(tags', note_tags', o) = {}
              /\ notes' = notes]_vars

C19_Witness ==
    /\ last.op = "renameTag"
    /\ last.err = "none"
    /\ last.changed
    /\ \E t \in DOMAIN tags :
          /\ tags[t].name = last.args.newName
          /\ tags[t].icon = "star"
          /\ Cardinality({r \in DOMAIN note_tags : r[2] = t}) = 2
    /\ Cardinality(DOMAIN tags) = 1
    /\ tag_seq = 2

\* C20: removeTag(noteId, name) removes only the association of that note
\* with that tag: the tag row stays in getAllTags, and every other note that
\* had the tag still has it.
C20_RemoveTagOnlyThatAssociation ==
    [][\A id \in IdArgs :
        (last'.op = "removeTag" /\ last'.args.noteId = id)
        => /\ tags' = tags
           /\ getAllTags' = getAllTags
           /\ DOMAIN note_tags' =
                 {r \in DOMAIN note_tags :
                     ~(r[1] = id /\ tags[r[2]].name = last'.args.tagName)}
           /\ \A r \in DOMAIN note_tags' : note_tags'[r] = note_tags[r]
           /\ \A o \in DOMAIN notes \ {id} :
                 getTagsForNoteIn(tags', note_tags', o)
                    = getTagsForNoteIn(tags, note_tags, o)
           /\ notes' = notes]_vars

C20_Witness ==
    /\ last.op = "removeTag"
    /\ last.err = "none"
    /\ last.changed
    /\ last.args.tagName \notin TagNamesOfIn(tags, note_tags, last.args.noteId)
    /\ \E o \in DOMAIN notes :
          last.args.tagName \in TagNamesOfIn(tags, note_tags, o)
    /\ \E t \in DOMAIN tags : \A r \in DOMAIN note_tags : r[2] # t

\* the whitespace-separated words of a text: its maximal runs of
\* non-whitespace characters, in order
InputWords(t) ==
    LET starts == {i \in 1..Len(t) :
                      ~IsWhitespace(t[i]) /\ (i = 1 \/ IsWhitespace(t[i - 1]))}
        EndOf(i) == Min({j \in i..Len(t) : j = Len(t) \/ IsWhitespace(t[j + 1])})
        ss == SortedSeq(starts)
    IN  [k \in 1..Len(ss) |-> SubSeq(t, ss[k], EndOf(ss[k]))]

QuoteCount(w) == Cardinality({i \in 1..Len(w) : w[i] = "\""})

RECURSIVE QuotedLength(_)
QuotedLength(ws) ==
    IF ws = << >> THEN 0
    ELSE Len(Head(ws)) + QuoteCount(Head(ws)) + 2 + QuotedLength(Tail(ws))

\* C21: search returns the empty list, not all notes, for the empty string
\* and for every whitespace-only string, however many notes exist.
C21_BlankQueryFindsNothing ==
    (/\ last.op = "search"
     /\ \A i \in 1..Len(last.args.query) : IsWhitespace(last.args.query[i]))
    => /\ last.ret = {<< >>}
       /\ search(last.args.query) = {}
       /\ search(EmptyText) = {}

C21_Witness ==
    /\ last.op = "search"
    /\ last.args.query = <<" ", "\t", " ">>
    /\ Cardinality(DOMAIN notes) = 2
    /\ search(<<"d">>) = DOMAIN notes

\* C22: for an input with a non-whitespace character the normalizer outputs
\* one quoted term per whitespace-separated word, in order, joined by single
\* spaces, embedded quotes doubled, the wildcard on the last term only; read
\* back as query syntax the output yields exactly the words as literal terms.
C22_NormalizerQuotesEveryWord ==
    (/\ last.op = "search"
     /\ \E i \in 1..Len(last.args.query) : ~IsWhitespace(last.args.query[i]))
    => LET words  == InputWords(last.args.query)
           out    == last.args.fts5Query
           parsed == ParseFts5(out, FALSE, << >>, << >>)
       IN  /\ parsed.ok
           /\ Len(parsed.phrases) = Len(words)
           /\ \A k \in 1..Len(words) :
                 /\ parsed.phrases[k].text = words[k]
                 /\ parsed.phrases[k].prefix = (k = Len(words))
           /\ Len(out) = QuotedLength(words) + (Len(words) - 1) + 1
           /\ out[1] = "\""
           /\ out[Len(out)] = "*"

C22_Witness ==
    /\ last.op = "search"
    /\ last.args.query = <<"\"", "\t", " ", "*">>
    /\ last.args.fts5Query = <<"\"", "\"", "\"", "\"", " ", "\"", "*", "\"", "*">>

\* C23: every successful updateNote sets updated_at to the timestamp of that
\* call, also with only a title and with values equal to the stored ones,
\* and never changes created_at; a note's updated_at never decreases and is
\* never earlier than its created_at.
C23_UpdatedAtRefreshed ==
    [][/\ \A id \in IdArgs :
            (last'.op = "updateNote" /\ last'.args.id = id /\ id \in DOMAIN notes)
            => /\ last'.err = "none"
               /\ clock' >= clock
               /\ notes'[id].updated_at = clock'
               /\ last'.ret.updated_at = clock'
               /\ notes'[id].created_at = notes[id].created_at
               /\ last'.ret.created_at = notes[id].created_at
       /\ \A n \in DOMAIN notes' :
            /\ notes'[n].updated_at >= notes'[n].created_at
            /\ n \in DOMAIN notes => notes'[n].updated_at >= notes[n].updated_at]_vars

C23_Witness ==
    /\ last.op = "updateNote"
    /\ last.err = "none"
    /\ last.args.body = Undefined
    /\ last.args.title = T_Dev
    /\ last.ret.updated_at = 1
    /\ last.ret.created_at = 0
    /\ ~last.changed

\* a suspended call that has run one of its storage statements and has
\* another one still to run
MidOperation(call) ==
    \/ call.op \in {"updateNote", "addTag"} /\ call.pc = "getNote"
                                            /\ call.existing # Null
    \/ call.op = "deleteNotes" /\ call.rest # << >>

\* C24: no engine operation is suspended between its first and its last
\* storage statement: no call waits with one of its statements done and
\* another still to run, so the statements of two calls never interleave and
\* no call commits part of its effect and then waits.
C24_NoSuspensionBetweenStatements ==
    \A i \in DOMAIN inflight : ~MidOperation(inflight[i])

\* C25: addTag is not atomic: a crash between its INSERT INTO tags and its
\* INSERT INTO note_tags leaves the tag row it created in the store, not
\* associated with the target note.
C25_CrashLeavesTagUnassociated ==
    [][(last'.op = "crash" /\ Running /\ Head(inflight).created)
       => LET call == Head(inflight)
          IN  /\ \E t \in DOMAIN tags' : tags'[t].name = call.args.tagName
              /\ \A t \in DOMAIN tags' :
                    tags'[t].name = call.args.tagName
                    => <<call.args.noteId, t>> \notin DOMAIN note_tags']_vars

C25_Witness ==
    /\ last.op = "crash"
    /\ last.args.interrupted.op = "addTag"
    /\ last.args.interrupted.pc = "insertedTag"
    /\ last.args.interrupted.created
    /\ last.args.interrupted.args.noteId \in DOMAIN notes
    /\ \E t \in DOMAIN tags :
          /\ tags[t].name = last.args.interrupted.args.tagName
          /\ \A r \in DOMAIN note_tags : r[2] # t

\* C28: when an updateNote that supplies only one of title and body returns
\* while an updateNote of the same note that supplies only the other one is
\* suspended, the row that the second call writes holds the title and the
\* body the two calls supplied.
C28_ConcurrentUpdatesBothKept ==
    [][\A id \in 1..MaxNotes :
         (/\ last.op = "updateNote"
          /\ last.err = "none"
          /\ last.args.id = id
          /\ inflight # << >>
          /\ Head(inflight).op = "updateNote"
          /\ Head(inflight).args.id = id
          /\ Head(inflight).existing # Null
          /\ (last.args.title = Undefined) # (last.args.body = Undefined)
          /\ (Head(inflight).args.title = Undefined) = (last.args.body = Undefined)
          /\ (Head(inflight).args.body = Undefined) = (last.args.title = Undefined)
          /\ last'.op = "updateNote"
          /\ id \in DOMAIN notes)
         => /\ notes'[id].title = IF last.args.title = Undefined
                                  THEN Head(inflight).args.title
                                  ELSE last.args.title
            /\ notes'[id].body = IF last.args.body = Undefined
                                 THEN Head(inflight).args.body
                                 ELSE last.args.body]_vars

\* C26: in the base engine storeMedia, getMedia and deleteMedia fail with an
\* explicit error for every input and leave the store as it is;
\* getMediaForNote succeeds and returns exactly the media rows of the given
\* note, each once, in ascending created_at order.
C26_BaseMediaOpsThrow ==
    [][/\ last'.op \in {"storeMedia", "getMedia", "deleteMedia"}
          => /\ last'.err = MustBeImplementedByWorker
             /\ media' = media
             /\ Store' = Store
       /\ \A id \in IdArgs :
            (last'.op = "getMediaForNote" /\ last'.args.noteId = id)
            => /\ last'.err = "none"
               /\ Store' = Store
               /\ last'.ret # {}
               /\ \A r \in last'.ret :
                    /\ {r[i].id : i \in DOMAIN r}
                         = {k \in DOMAIN media : media[k].note_id = id}
                    /\ \A i, j \in DOMAIN r :
                         i < j => /\ r[i].id # r[j].id
                                  /\ r[i].created_at <= r[j].created_at
                    /\ \A i \in DOMAIN r :
                         r[i].created_at = media[r[i].id].created_at]_vars

C26_Witness ==
    /\ last.op = "deleteMedia"
    /\ last.err = MustBeImplementedByWorker
    /\ last.args.id \in DOMAIN media
    /\ \E k1, k2 \in DOMAIN media :
          /\ k1 < k2
          /\ media[k1].note_id = media[k2].note_id
          /\ media[k1].created_at > media[k2].created_at

\* the engine has served every call the mock DB has served
InStep == last.op # "mockCall"

\* how many tags with this name and icon getAllTags returns
EngineTagCount(name, icon) ==
    Cardinality({i \in DOMAIN getAllTags :
                    /\ getAllTags[i].name = name
                    /\ tags[getAllTags[i].id].icon = icon})

MockTagCount(name, icon) ==
    Cardinality({t \in DOMAIN mock.tags :
                    mock.tags[t].name = name /\ mock.tags[t].icon = icon})

\* how many tags with this name and icon getNote(id).tags holds
EngineNoteTagCount(id, name, icon) ==
    Cardinality({i \in DOMAIN getNote(id).tags :
                    /\ getNote(id).tags[i].name = name
                    /\ tags[getNote(id).tags[i].id].icon = icon})

MockNoteTagCount(id, name, icon) ==
    Cardinality({i \in DOMAIN mock.notes[id] :
                    /\ mock.tags[mock.notes[id][i]].name = name
                    /\ mock.tags[mock.notes[id][i]].icon = icon})

\* C27: after the same sequence of createNote, addTag, updateTagIcon and
\* renameTag calls on the mock DB and on the engine, getAllTags returns the
\* same tag names and icons, each as many times, in both, and so does the tag
\* list of every note that getNote returns.
C27_MockAgreesWithEngine ==
    InStep =>
       /\ DOMAIN mock.notes = DOMAIN notes
       /\ \A name \in TagNames, icon \in Icons :
             /\ MockTagCount(name, icon) = EngineTagCount(name, icon)
             /\ \A id \in DOMAIN notes :
                   MockNoteTagCount(id, name, icon)
                     = EngineNoteTagCount(id, name, icon)

\* C29: through the chat loop a note is deleted only after the user accepted
\* a pending confirmation: a delete_note tool call changes nothing in the
\* store and raises the confirmation for its note, db.deleteNote runs only
\* for a confirmDelete(true), and confirmDelete(false) deletes nothing.
C29_DeleteOnlyAfterConfirmation ==
    [][/\ (last'.op = "executeTool" /\ last'.args.name = "delete_note"
                                    /\ last'.args.hasId)
          => Store' = Store /\ chat'.pending = [id |-> last'.args.id]
       /\ last'.op = "deleteNote" => chat.pc = "confirmAwaitDb"
       /\ (last'.op = "confirmDelete" /\ ~last'.args.confirmed)
          => Store' = Store /\ chat'.pc = "confirmStream"]_vars

====
